---- MODULE Spec2Model ----
(***************************************************************************)
(* TrustNoCorpo: the encrypted build ledger (tnc/logger.py, BuildLogger)   *)
(* and the calls tnc/core.py makes into it.                                *)
(*                                                                         *)
(* Modelling conventions                                                   *)
(*  - A Python str is a sequence of symbols.  A symbol is a record: either *)
(*    one character [ch |-> c] or, for the base64 text of a Fernet token,  *)
(*    the single symbol [b64 |-> token].  Concatenation is \o.             *)
(*  - sha256 is collision free: Sha256(s) is the record [sha |-> s].       *)
(*  - A Fernet token is [key, iv, msg, flipped]; decryption under key k    *)
(*    succeeds exactly when the token was made under k and no byte of it   *)
(*    was altered (the HMAC check of Fernet).                              *)
(*  - ISO-8601 timestamps of one fixed format order as text exactly as     *)
(*    the instants they denote, so timestamp_utc is the integer clock      *)
(*    reading and ORDER BY timestamp_utc DESC is descending integer order. *)
(*    now is the latest clock reading stored in the ledger.                *)
(*  - written is a history variable: for each build_hash, the row as the   *)
(*    last successful log_build wrote it.                                  *)
(*  - ret is what the last call handed back: its arguments, the value it  *)
(*    returned and, for an export, the files it wrote.                     *)
(***************************************************************************)
EXTENDS Integers, Sequences, FiniteSets, TLC

\* ------------------------------------------------------------------ bounds
MaxInserts == 2
MaxTamper == 1

\* ------------------------------------------------------------ input domains
Ch(c) == [ch |-> c]
B1 == <<Ch("B"), Ch("1")>>
B2 == <<Ch("B"), Ch("2")>>
BuildHashes == {B1, B2}
Loggers == {"L1"}
\* the processes that write to the ledger at the same time
Procs == {"p1", "p2"}
PyNone == "<None>"
Tokens == {"alice", "bob"}
\* the (classification, recipient_token) pairs builds are logged with
Builds == {[classification |-> "SECRET", recipient_token |-> "alice"],
           [classification |-> "PUBLIC", recipient_token |-> "bob"]}
QueryTokens == Tokens
Fingerprints == {"fpA", "fpB"}
NoIdentity == "<no identity>"
MainFile == "doc.tex"
\* build_dir / (jobname + ".pdf"); the default build_dir is "build" and
\* fanout_builds gives every recipient token a directory of its own
BuildDirs == {"build"} \cup Tokens
PdfPathIn(build_dir) == <<Ch(build_dir), Ch("doc"), Ch(".pdf")>>
PdfPath == PdfPathIn("build")
PdfSize == 0
\* Optional[str] arguments: <<>> is None, <<s>> is the str s
None == <<>>
Some(x) == <<x>>
\* a str of n distinct characters
Str(n) == [i \in 1..n |-> [d |-> i]]
HintLen == 8
Passwords == {None, Some(Str(HintLen)), Some(Str(HintLen + 1))}
RasterDpi == 150
Limits == {0, 1, 2}

\* -------------------------------------------------------- files and handles
NoFile == [absent |-> TRUE]
BadKey == [garbage |-> TRUE]
Unconstructed == [state |-> "unconstructed"]
NoFernet == [state |-> "no_fernet"]
NoRow == [state |-> "no_row"]
\* a process between two calls of log_build
Idle == [pc |-> "idle"]
FernetKey(n) == [key |-> n]
IsFernetKey(k) == "key" \in DOMAIN k

VARIABLES keyFile, keysMinted, schema, rows, seq, fernet, identity, now,
          tampered, written, ret, proc, rowid, bld, disk

vars == <<keyFile, keysMinted, schema, rows, seq, fernet, identity, now,
          tampered, written, ret, proc, rowid, bld, disk>>

\* ------------------------------------------------------------ pure helpers
Sha256(s) == [sha |-> s]

JsonDumps(obj) == [json |-> obj]
JsonLoads(text) == text.json

FernetEncrypt(k, iv, msg) == [key |-> k, iv |-> iv, msg |-> msg, flipped |-> FALSE]
FernetDecryptOk(k, token) == IsFernetKey(k) /\ token.key = k /\ ~token.flipped

B64Encode(token) == <<[b64 |-> token]>>
B64DecodeOk(text) == Len(text) = 1 /\ "b64" \in DOMAIN text[1]
B64Decode(text) == text[1].b64

IsoLocal(t) == [tz |-> "local", t |-> t]

\* pdf_password[:8] + "..." if pdf_password else None
Truthy(opt) == opt # None /\ opt[1] # <<>>
Dots == <<Ch("."), Ch("."), Ch(".")>>
PasswordHint(pdf_password) ==
    IF Truthy(pdf_password)
    THEN LET pw == pdf_password[1]
         IN Some(SubSeq(pw, 1, IF Len(pw) < HintLen THEN Len(pw) ELSE HintLen) \o Dots)
    ELSE None

BuildDataOf(build_hash, classification, main_file, pdf_path, pdf_password, recipient_token, t) ==
    [build_hash |-> build_hash,
     generation_info |-> "info",
     generation_time |-> "time",
     classification |-> classification,
     main_file |-> main_file,
     pdf_path |-> pdf_path,
     pdf_password_hint |-> PasswordHint(pdf_password),
     user |-> "user",
     timestamp_iso |-> IsoLocal(t),
     pdf_size |-> PdfSize,
     recipient_token |-> recipient_token]

\* the metadata of a log_build call without a password
BuildData(build_hash, classification, recipient_token, t) ==
    BuildDataOf(build_hash, classification, MainFile, PdfPath, None,
                recipient_token, t)

\* fernet.decrypt(base64.b64decode(encrypted_data)) followed by json.loads:
\* does it complete without raising under the handle's key?
Decryptable(k, encrypted_data) ==
    /\ B64DecodeOk(encrypted_data)
    /\ FernetDecryptOk(k, B64Decode(encrypted_data))

DecryptRow(encrypted_data) == JsonLoads(B64Decode(encrypted_data).msg)

RowsOf(build_hash) == {r \in rows : r.build_hash = build_hash}

RECURSIVE Perms(_)
Perms(S) ==
    IF S = {} THEN {<<>>}
    ELSE UNION {{<<x>> \o p : p \in Perms(S \ {x})} : x \in S}

\* SELECT ... ORDER BY timestamp_utc DESC: any order of the rows that is
\* descending in timestamp_utc (rows of equal timestamp come in either order)
OrderedRows ==
    {q \in Perms(rows) :
        \A i \in 1..Len(q), j \in 1..Len(q) :
            i < j => q[i].timestamp_utc >= q[j].timestamp_utc}

Take(q, n) == SubSeq(q, 1, IF n < Len(q) THEN n ELSE Len(q))

\* the identifiers log_build is called with: those given by a direct caller
\* and those build generates
AllBuildHashes ==
    BuildHashes \cup
    {<<[md5 |-> <<MainFile, c, IsoLocal(t)>>]>> :
        c \in {"SECRET", "PUBLIC"}, t \in 0..(2 * MaxInserts)}

\* ------------------------------------------------------------------- Init
Init ==
    /\ keyFile = NoFile
    /\ keysMinted = 0
    /\ schema = FALSE
    /\ rows = {}
    /\ seq = 0
    /\ fernet = [l \in Loggers |-> Unconstructed]
    /\ identity = NoIdentity
    /\ now = 0
    /\ tampered = 0
    /\ written = [b \in AllBuildHashes |-> NoRow]
    /\ ret = [op |-> "none"]
    /\ proc = [p \in Procs |-> Idle]
    /\ rowid = 0
    /\ bld = Idle
    /\ disk = [d \in BuildDirs |-> NoFile]

\* ------------------------------------------- BuildLogger._init_encrypted_database
\* an initialisation that writes a new key whether or not a key file exists
InitEncryptedDatabase_AlwaysGenerates(l, onFail) ==
    /\ keyFile' = FernetKey(keysMinted + 1)
    /\ keysMinted' = keysMinted + 1
    /\ fernet' = [fernet EXCEPT ![l] = keyFile']
    /\ schema' = TRUE
    /\ UNCHANGED <<rows, seq, identity, now, tampered, written, proc, rowid, bld, disk>>

\* onFail is what self.fernet is when Fernet(db_key) raises: absent for a
\* handle under construction, the previous value on a re-initialisation.
InitEncryptedDatabase(l, onFail) ==
    LET generate == keyFile = NoFile
        db_key == IF generate THEN FernetKey(keysMinted + 1) ELSE keyFile
        ok == IsFernetKey(db_key)
    IN /\ keyFile' = db_key
       /\ keysMinted' = IF generate THEN keysMinted + 1 ELSE keysMinted
       /\ fernet' = [fernet EXCEPT ![l] = IF ok THEN db_key ELSE onFail]
       /\ schema' = (schema \/ ok)
       /\ UNCHANGED <<rows, seq, identity, now, tampered, written, proc, rowid, bld, disk>>

\* BuildLogger(db_path): a new handle on the ledger
Open(l) ==
    /\ InitEncryptedDatabase(l, NoFernet)
    /\ ret' = [op |-> "open", logger |-> l]

\* trustnocorpo.init_project: runs _init_encrypted_database again on its handle
InitProject(l) ==
    /\ fernet[l] # Unconstructed
    /\ InitEncryptedDatabase(l, fernet[l])
    /\ ret' = [op |-> "init_project", logger |-> l]

\* ------------------------------------------------------- identity keys
\* KeyManager.user_has_keys()
UserHasKeys == identity # NoIdentity

\* what the user types at the prompts, and what generate_user_keys does:
\* it returns False, or persists new key material, of fingerprint fp
KeyPrompts ==
    [username : BOOLEAN, password : BOOLEAN, success : BOOLEAN, fp : Fingerprints]

\* lines 84-97 of cmd_keys and 76-89 of init_project: the prompts, then
\* generate_user_keys; the result is <<invoked, succeeded, identity after>>
PromptAndGenerate(in) ==
    IF ~in.username \/ ~in.password THEN <<FALSE, FALSE, identity>>
    ELSE IF ~in.success THEN <<TRUE, FALSE, identity>>
    ELSE <<TRUE, TRUE, in.fp>>

\* cmd_keys --generate that does not look at the keys that exist
CmdKeysGenerate_IgnoresExisting(force, in) ==
    /\ in.fp # identity
    /\ LET g == PromptAndGenerate(in)
       IN /\ identity' = g[3]
          /\ ret' = [op |-> "keys_generate", force |-> force, prompts |-> in,
                     invoked |-> g[1],
                     code |-> IF g[2] THEN 0 ELSE 1]
    /\ UNCHANGED <<keyFile, keysMinted, schema, rows, seq, fernet, now, tampered,
                   written, proc, rowid, bld, disk>>

\* cmd_keys with --generate
CmdKeysGenerate(force, in) ==
    /\ in.fp # identity
    /\ IF UserHasKeys /\ ~force
       THEN /\ identity' = identity
            /\ ret' = [op |-> "keys_generate", force |-> force, prompts |-> in,
                     invoked |-> FALSE,
                       code |-> 0]
       ELSE LET g == PromptAndGenerate(in)
            IN /\ identity' = g[3]
               /\ ret' = [op |-> "keys_generate", force |-> force, prompts |-> in,
                     invoked |-> g[1],
                          code |-> IF g[2] THEN 0 ELSE 1]
    /\ UNCHANGED <<keyFile, keysMinted, schema, rows, seq, fernet, now, tampered,
                   written, proc, rowid, bld, disk>>

\* cmd_keys with --reset: confirmed or not, reset_keys succeeding or not
CmdKeysReset(confirm, success) ==
    /\ identity' = IF confirm /\ success THEN NoIdentity ELSE identity
    /\ ret' = [op |-> "keys_reset", confirm |-> confirm,
               code |-> IF confirm /\ ~success THEN 1 ELSE 0]
    /\ UNCHANGED <<keyFile, keysMinted, schema, rows, seq, fernet, now, tampered,
                   written, proc, rowid, bld, disk>>

\* trustnocorpo.init_project(force) on a project whose .trustnocorpo
\* directory exists or not: lines 65-105
InitProjectSetup(l, force, dir_exists, in) ==
    /\ fernet[l] # Unconstructed
    /\ in.fp # identity
    /\ (keyFile # NoFile \/ schema) => dir_exists
    /\ LET g == IF UserHasKeys THEN <<FALSE, TRUE, identity>>
                ELSE PromptAndGenerate(in)
           generate == keyFile = NoFile
           db_key == IF generate THEN FernetKey(keysMinted + 1) ELSE keyFile
           ok == IsFernetKey(db_key)
       IN IF dir_exists /\ ~force
          THEN /\ ret' = [op |-> "init_project", logger |-> l, force |-> force, prompts |-> in,
                          invoked |-> FALSE, result |-> TRUE]
               /\ UNCHANGED <<identity, keyFile, keysMinted, fernet, schema>>
          ELSE IF ~g[2]
          THEN /\ ret' = [op |-> "init_project", logger |-> l, force |-> force, prompts |-> in,
                          invoked |-> g[1], result |-> FALSE]
               /\ UNCHANGED <<identity, keyFile, keysMinted, fernet, schema>>
          ELSE /\ identity' = g[3]
               /\ keyFile' = db_key
               /\ keysMinted' = IF generate THEN keysMinted + 1 ELSE keysMinted
               /\ fernet' = [fernet EXCEPT ![l] = IF ok THEN db_key ELSE fernet[l]]
               /\ schema' = (schema \/ ok)
               /\ ret' = [op |-> "init_project", logger |-> l, force |-> force, prompts |-> in,
                          invoked |-> g[1], result |-> TRUE]
    /\ UNCHANGED <<rows, seq, now, tampered, written, proc, rowid, bld, disk>>

\* ------------------------------------------------- BuildLogger.log_build
\* KeyManager.get_user_fingerprint(): the fingerprint of the persisted
\* identity; raises when there is none.
GetUserFingerprintOk == identity # NoIdentity
GetUserFingerprint == identity

\* os.urandom(16) in Fernet.encrypt: an iv no stored token carries; it is
\* named after the number of rows written so far
FreshIv == seq + 1

\* log_build with the tag taken over identifier, fingerprint and ciphertext
NewRow_SignsFingerprint(k, build_hash, classification, recipient_token, t) ==
    LET build_data == BuildData(build_hash, classification, recipient_token, t)
        encrypted_data_b64 == B64Encode(FernetEncrypt(k, FreshIv, JsonDumps(build_data)))
    IN [id |-> seq + 1,
        build_hash |-> build_hash,
        encrypted_data |-> encrypted_data_b64,
        user_fingerprint |-> GetUserFingerprint,
        user_signature |-> Sha256(build_hash \o <<Ch(GetUserFingerprint)>> \o encrypted_data_b64),
        timestamp_utc |-> t]

\* log_build with the tag taken over the token before its base64 encoding
NewRow_SignsToken(k, build_hash, classification, recipient_token, t) ==
    LET build_data == BuildData(build_hash, classification, recipient_token, t)
        encrypted_token == FernetEncrypt(k, FreshIv, JsonDumps(build_data))
    IN [id |-> seq + 1,
        build_hash |-> build_hash,
        encrypted_data |-> B64Encode(encrypted_token),
        user_fingerprint |-> GetUserFingerprint,
        user_signature |-> Sha256(build_hash \o <<[raw |-> encrypted_token]>>),
        timestamp_utc |-> t]

NewRow(k, build_hash, classification, recipient_token, t) ==
    LET build_data == BuildData(build_hash, classification, recipient_token, t)
        encrypted_token == FernetEncrypt(k, FreshIv, JsonDumps(build_data))
        encrypted_data_b64 == B64Encode(encrypted_token)
        signature_data == build_hash \o encrypted_data_b64
    IN [id |-> seq + 1,
        build_hash |-> build_hash,
        encrypted_data |-> encrypted_data_b64,
        user_fingerprint |-> GetUserFingerprint,
        user_signature |-> Sha256(signature_data),
        timestamp_utc |-> t]

\* the row log_build makes of the metadata build_data
NewRowOf(k, build_hash, build_data, t) ==
    LET encrypted_token == FernetEncrypt(k, FreshIv, JsonDumps(build_data))
        encrypted_data_b64 == B64Encode(encrypted_token)
        signature_data == build_hash \o encrypted_data_b64
    IN [id |-> seq + 1,
        build_hash |-> build_hash,
        encrypted_data |-> encrypted_data_b64,
        user_fingerprint |-> GetUserFingerprint,
        user_signature |-> Sha256(signature_data),
        timestamp_utc |-> t]

\* an upsert that, on a conflicting build_hash, updates the ciphertext of the
\* stored row and keeps its other columns
InsertOrReplace_UpdatesDataOnly(table, row) ==
    IF \E r \in table : r.build_hash = row.build_hash
    THEN {IF r.build_hash = row.build_hash
          THEN [r EXCEPT !.encrypted_data = row.encrypted_data] ELSE r : r \in table}
    ELSE table \cup {row}

\* a plain INSERT into a table without the UNIQUE constraint
InsertOrReplace_Insert(table, row) == table \cup {row}

\* INSERT OR REPLACE under the UNIQUE constraint on build_hash
InsertOrReplace(table, row) ==
    {r \in table : r.build_hash # row.build_hash} \cup {row}

\* t is what the clock reads during the call (datetime.now() for the
\* metadata, datetime.utcnow() for the row): not before the reading of the
\* last row written
LogBuild(l, build_hash, classification, recipient_token, t) ==
    /\ fernet[l] # Unconstructed
    /\ seq < MaxInserts
    /\ t >= now
    /\ LET encrypted == IsFernetKey(fernet[l])
           ok == encrypted /\ GetUserFingerprintOk /\ schema
           row == NewRow(fernet[l], build_hash, classification, recipient_token, t)
       IN /\ rows' = IF ok THEN InsertOrReplace(rows, row) ELSE rows
          /\ seq' = IF ok THEN seq + 1 ELSE seq
          /\ now' = IF ok THEN t ELSE now
          /\ written' = IF ok THEN [written EXCEPT ![build_hash] = row] ELSE written
          /\ ret' = [op |-> "log_build", logger |-> l, build_hash |-> build_hash,
                     classification |-> classification,
                     recipient_token |-> recipient_token,
                     ok |-> ok, build_id |-> IF ok THEN seq + 1 ELSE 0]
    /\ UNCHANGED <<keyFile, keysMinted, schema, fernet, identity, tampered>>
    /\ UNCHANGED <<proc, rowid, bld, disk>>

\* ------------------------- log_build, statement by statement, in process p
\* sqlite3 runs the INSERT OR REPLACE in a transaction of the connection: the
\* statement takes the write lock of the database file, conn.commit()
\* publishes the row and releases the lock, and a connection dropped before
\* its commit is rolled back.  Readers see the committed table, rows.
LockHolders == {p \in Procs : proc[p].pc = "executed"}

\* a handler that commits whatever the connection holds before it returns
Rollback_CommitsPending(table, pending) == InsertOrReplace(table, pending)

\* the except branch returns without conn.commit(): the pending row is gone
Rollback(table, pending) == table

\* the metadata is encrypted and signed, the fingerprint and the clock read
LogBuildPrepare(p, l, build_hash, classification, recipient_token, t) ==
    /\ proc[p].pc = "idle"
    /\ fernet[l] # Unconstructed
    /\ seq < MaxInserts
    /\ t >= now
    /\ LET ok == IsFernetKey(fernet[l]) /\ GetUserFingerprintOk
           row == NewRow(fernet[l], build_hash, classification, recipient_token, t)
       IN /\ proc' = [proc EXCEPT ![p] =
                         IF ok THEN [pc |-> "prepared", logger |-> l, row |-> row,
                                     classification |-> classification,
                                     recipient_token |-> recipient_token]
                         ELSE Idle]
          /\ seq' = IF ok THEN seq + 1 ELSE seq
          /\ now' = IF ok THEN t ELSE now
          /\ ret' = IF ok THEN [op |-> "step", proc |-> p, at |-> "prepared"]
                    ELSE [op |-> "log_build", proc |-> p, raised |-> "prepare",
                          logger |-> l,
                          build_hash |-> build_hash,
                          classification |-> classification,
                          recipient_token |-> recipient_token,
                          ok |-> FALSE, build_id |-> 0]
    /\ UNCHANGED <<keyFile, keysMinted, schema, rows, fernet, identity, tampered,
                   written, rowid>>
    /\ UNCHANGED <<bld, disk>>

\* cursor.execute(INSERT OR REPLACE ...) and cursor.lastrowid: the statement
\* runs once no other connection holds the write lock
LogBuildExecute(p) ==
    /\ proc[p].pc = "prepared"
    /\ schema
    /\ LockHolders = {}
    /\ proc' = [proc EXCEPT ![p] =
                   [@ EXCEPT !.pc = "executed", !.row = [@ EXCEPT !.id = rowid + 1]]]
    /\ ret' = [op |-> "step", proc |-> p, at |-> "executed"]
    /\ UNCHANGED <<keyFile, keysMinted, schema, rows, seq, fernet, identity, now,
                   tampered, written, rowid>>
    /\ UNCHANGED <<bld, disk>>

LogBuildFailed(p, raised) ==
    [op |-> "log_build", proc |-> p, raised |-> raised, logger |-> proc[p].logger,
     build_hash |-> proc[p].row.build_hash,
     classification |-> proc[p].classification,
     recipient_token |-> proc[p].recipient_token,
     ok |-> FALSE, build_id |-> 0]

\* cursor.execute raises: the table is missing, or the lock stayed with
\* another connection for the whole busy timeout
LogBuildBusy(p) ==
    /\ proc[p].pc = "prepared"
    /\ ~schema \/ LockHolders # {}
    /\ proc' = [proc EXCEPT ![p] = Idle]
    /\ ret' = LogBuildFailed(p, "execute")
    /\ UNCHANGED <<keyFile, keysMinted, schema, rows, seq, fernet, identity, now,
                   tampered, written, rowid>>
    /\ UNCHANGED <<bld, disk>>

\* conn.commit() returns: the row is published and build_id returned
LogBuildCommit(p) ==
    /\ proc[p].pc = "executed"
    /\ rows' = InsertOrReplace(rows, proc[p].row)
    /\ rowid' = rowid + 1
    /\ written' = [written EXCEPT ![proc[p].row.build_hash] = proc[p].row]
    /\ proc' = [proc EXCEPT ![p] = Idle]
    /\ ret' = [op |-> "log_build", proc |-> p, logger |-> proc[p].logger,
               build_hash |-> proc[p].row.build_hash,
               classification |-> proc[p].classification,
               recipient_token |-> proc[p].recipient_token,
               ok |-> TRUE, build_id |-> proc[p].row.id]
    /\ UNCHANGED <<keyFile, keysMinted, schema, seq, fernet, identity, now, tampered>>
    /\ UNCHANGED <<bld, disk>>

\* conn.commit() raises: the handler returns None and the connection is
\* dropped with its transaction open
LogBuildAbort(p) ==
    /\ proc[p].pc = "executed"
    /\ rows' = Rollback(rows, proc[p].row)
    /\ proc' = [proc EXCEPT ![p] = Idle]
    /\ ret' = LogBuildFailed(p, "commit")
    /\ UNCHANGED <<keyFile, keysMinted, schema, seq, fernet, identity, now, tampered,
                   written, rowid>>
    /\ UNCHANGED <<bld, disk>>

\* ---------------------------------------------- BuildLogger.verify_build
\* verify_build that decrypts before it compares the tag
VerifyOutcome_DecryptsFirst(k, build_hash) ==
    IF ~schema THEN "Error"
    ELSE IF RowsOf(build_hash) = {} THEN "NotFound"
    ELSE LET result == CHOOSE r \in RowsOf(build_hash) : TRUE
         IN IF ~Decryptable(k, result.encrypted_data) THEN "DecryptFailed"
            ELSE IF Sha256(build_hash \o result.encrypted_data) # result.user_signature
                 THEN "TagMismatch"
            ELSE "Verified"

VerifyOutcome(k, build_hash) ==
    IF ~schema THEN "Error"
    ELSE IF RowsOf(build_hash) = {} THEN "NotFound"
    ELSE LET result == CHOOSE r \in RowsOf(build_hash) : TRUE
             signature_data == build_hash \o result.encrypted_data
             expected_signature == Sha256(signature_data)
         IN IF expected_signature # result.user_signature THEN "TagMismatch"
            ELSE IF ~Decryptable(k, result.encrypted_data) THEN "DecryptFailed"
            ELSE "Verified"

\* a verify_build that deletes the row it cannot verify
VerifyBuild_DeletesUnverified(l, build_hash) ==
    /\ fernet[l] # Unconstructed
    /\ ret' = [op |-> "verify_build", logger |-> l, build_hash |-> build_hash,
               outcome |-> VerifyOutcome(fernet[l], build_hash),
               result |-> (VerifyOutcome(fernet[l], build_hash) = "Verified")]
    /\ rows' = IF VerifyOutcome(fernet[l], build_hash) \in {"TagMismatch", "DecryptFailed"}
               THEN rows \ RowsOf(build_hash) ELSE rows
    /\ UNCHANGED <<keyFile, keysMinted, schema, seq, fernet, identity, now,
                   tampered, written>>
    /\ UNCHANGED <<proc, rowid, bld, disk>>

VerifyBuild(l, build_hash) ==
    /\ fernet[l] # Unconstructed
    /\ ret' = [op |-> "verify_build", logger |-> l, build_hash |-> build_hash,
               outcome |-> VerifyOutcome(fernet[l], build_hash),
               result |-> (VerifyOutcome(fernet[l], build_hash) = "Verified")]
    /\ UNCHANGED <<keyFile, keysMinted, schema, rows, seq, fernet, identity, now,
                   tampered, written>>
    /\ UNCHANGED <<proc, rowid, bld, disk>>

\* ------------------------------------- BuildLogger(db_path) in two processes
\* each process constructs its own handle on the one ledger path; the handle
\* of process p is proc[p].fernet
\* line 48: self.key_path.exists()
OpenCheck(p) ==
    /\ proc[p].pc = "idle"
    /\ proc' = [proc EXCEPT ![p] = [pc |-> "checked", exists |-> keyFile # NoFile]]
    /\ ret' = [op |-> "step", proc |-> p, at |-> "checked"]
    /\ UNCHANGED <<keyFile, keysMinted, schema, rows, seq, fernet, identity, now,
                   tampered, written, rowid, bld, disk>>

\* lines 49-56 and 58-74: the key is generated and written, or read, by the
\* branch chosen at line 48; then Fernet(db_key) and the schema
OpenKey(p) ==
    /\ proc[p].pc = "checked"
    /\ LET generate == ~proc[p].exists
           db_key == IF generate THEN FernetKey(keysMinted + 1) ELSE keyFile
           ok == IsFernetKey(db_key)
       IN /\ keyFile' = db_key
          /\ keysMinted' = IF generate THEN keysMinted + 1 ELSE keysMinted
          /\ schema' = (schema \/ ok)
          /\ proc' = [proc EXCEPT ![p] =
                         [pc |-> "opened", fernet |-> IF ok THEN db_key ELSE NoFernet]]
    /\ ret' = [op |-> "open", proc |-> p]
    /\ UNCHANGED <<rows, seq, fernet, identity, now, tampered, written, rowid, bld,
                   disk>>

\* log_build through the handle of process p
HandleLogBuild(p, build_hash, classification, recipient_token, t) ==
    /\ proc[p].pc = "opened"
    /\ seq < MaxInserts
    /\ t >= now
    /\ LET k == proc[p].fernet
           ok == IsFernetKey(k) /\ GetUserFingerprintOk /\ schema
           row == NewRow(k, build_hash, classification, recipient_token, t)
       IN /\ rows' = IF ok THEN InsertOrReplace(rows, row) ELSE rows
          /\ seq' = IF ok THEN seq + 1 ELSE seq
          /\ now' = IF ok THEN t ELSE now
          /\ written' = IF ok THEN [written EXCEPT ![build_hash] = row] ELSE written
          /\ ret' = [op |-> "log_build", proc |-> p, build_hash |-> build_hash,
                     classification |-> classification,
                     recipient_token |-> recipient_token,
                     ok |-> ok, build_id |-> IF ok THEN seq + 1 ELSE 0]
    /\ UNCHANGED <<keyFile, keysMinted, schema, fernet, identity, tampered, proc,
                   rowid, bld, disk>>

\* verify_build through the handle of process p
HandleVerifyBuild(p, build_hash) ==
    /\ proc[p].pc = "opened"
    /\ ret' = [op |-> "verify_build", proc |-> p, build_hash |-> build_hash,
               outcome |-> VerifyOutcome(proc[p].fernet, build_hash),
               result |-> (VerifyOutcome(proc[p].fernet, build_hash) = "Verified")]
    /\ UNCHANGED <<keyFile, keysMinted, schema, rows, seq, fernet, identity, now,
                   tampered, written, proc, rowid, bld, disk>>

\* ------------------------------------------------ BuildLogger.list_builds
ListSummary(row, build_data) ==
    [build_hash |-> row.build_hash,
     classification |-> build_data.classification,
     main_file |-> build_data.main_file,
     user_fingerprint |-> row.user_fingerprint,
     timestamp_iso |-> build_data.timestamp_iso,
     pdf_size |-> build_data.pdf_size]

\* list_builds without the try around each row: the first row that fails to
\* decrypt ends the listing in the outer handler, which returns []
ListScan_AbortsOnCorrupt(k, results) ==
    IF \E i \in 1..Len(results) : ~Decryptable(k, results[i].encrypted_data)
    THEN <<>>
    ELSE [i \in 1..Len(results) |->
             ListSummary(results[i], DecryptRow(results[i].encrypted_data))]

\* the loop over the fetched rows: a row that fails to decrypt is skipped
RECURSIVE ListScan(_, _)
ListScan(k, results) ==
    IF results = <<>> THEN <<>>
    ELSE LET row == Head(results)
         IN (IF Decryptable(k, row.encrypted_data)
             THEN <<ListSummary(row, DecryptRow(row.encrypted_data))>>
             ELSE <<>>) \o ListScan(k, Tail(results))

ListBuilds(l, limit) ==
    /\ fernet[l] # Unconstructed
    /\ \E q \in OrderedRows :
          ret' = [op |-> "list_builds", logger |-> l, limit |-> limit,
                  builds |-> IF schema THEN ListScan(fernet[l], Take(q, limit))
                             ELSE <<>>]
    /\ UNCHANGED <<keyFile, keysMinted, schema, rows, seq, fernet, identity, now,
                   tampered, written>>
    /\ UNCHANGED <<proc, rowid, bld, disk>>

\* ------------------------------------ BuildLogger.find_by_recipient_token
FindSummary(row, build_data) ==
    [build_hash |-> row.build_hash,
     classification |-> build_data.classification,
     timestamp_iso |-> build_data.timestamp_iso,
     user_fingerprint |-> row.user_fingerprint,
     main_file |-> build_data.main_file,
     pdf_path |-> build_data.pdf_path]

\* find_by_recipient_token without the try around each row: a row that fails
\* to decrypt ends the search
RECURSIVE FindScan_StopsAtCorrupt(_, _, _)
FindScan_StopsAtCorrupt(k, results, token) ==
    IF results = <<>> THEN <<>>
    ELSE LET row == Head(results)
         IN IF ~Decryptable(k, row.encrypted_data) THEN <<>>
            ELSE IF DecryptRow(row.encrypted_data).recipient_token = token
            THEN <<FindSummary(row, DecryptRow(row.encrypted_data))>>
            ELSE FindScan_StopsAtCorrupt(k, Tail(results), token)

\* the loop over the fetched rows; the result is <<>> for None and
\* <<summary>> for a returned summary
RECURSIVE FindScan(_, _, _)
FindScan(k, results, token) ==
    IF results = <<>> THEN <<>>
    ELSE LET row == Head(results)
         IN IF /\ Decryptable(k, row.encrypted_data)
               /\ DecryptRow(row.encrypted_data).recipient_token = token
            THEN <<FindSummary(row, DecryptRow(row.encrypted_data))>>
            ELSE FindScan(k, Tail(results), token)

FindByRecipientToken(l, token) ==
    /\ fernet[l] # Unconstructed
    /\ \E q \in OrderedRows :
          ret' = [op |-> "find_by_recipient_token", logger |-> l, token |-> token,
                  match |-> IF schema THEN FindScan(fernet[l], q, token) ELSE <<>>]
    /\ UNCHANGED <<keyFile, keysMinted, schema, rows, seq, fernet, identity, now,
                   tampered, written>>
    /\ UNCHANGED <<proc, rowid, bld, disk>>

\* ---------------------------------------------- BuildLogger.export_signed
\* export_signed that keeps the build_hash found inside the ciphertext
ExportEntry_KeepsInnerHash(row, build_data) ==
    [build_hash |-> build_data.build_hash,
     generation_info |-> build_data.generation_info,
     generation_time |-> build_data.generation_time,
     classification |-> build_data.classification,
     main_file |-> build_data.main_file,
     pdf_path |-> build_data.pdf_path,
     pdf_password_hint |-> build_data.pdf_password_hint,
     user |-> build_data.user,
     timestamp_iso |-> build_data.timestamp_iso,
     pdf_size |-> build_data.pdf_size,
     recipient_token |-> build_data.recipient_token,
     user_fingerprint |-> row.user_fingerprint]

ExportEntry(row, build_data) ==
    [build_hash |-> row.build_hash,
     generation_info |-> build_data.generation_info,
     generation_time |-> build_data.generation_time,
     classification |-> build_data.classification,
     main_file |-> build_data.main_file,
     pdf_path |-> build_data.pdf_path,
     pdf_password_hint |-> build_data.pdf_password_hint,
     user |-> build_data.user,
     timestamp_iso |-> build_data.timestamp_iso,
     pdf_size |-> build_data.pdf_size,
     recipient_token |-> build_data.recipient_token,
     user_fingerprint |-> row.user_fingerprint]

RECURSIVE ExportScan(_, _)
ExportScan(k, results) ==
    IF results = <<>> THEN <<>>
    ELSE LET row == Head(results)
         IN (IF Decryptable(k, row.encrypted_data)
             THEN <<ExportEntry(row, DecryptRow(row.encrypted_data))>>
             ELSE <<>>) \o ExportScan(k, Tail(results))

\* the files written into output_dir, part of what the call hands back:
\* builds.json holds json.dump(entries); builds.json.sha256 holds the sha256
\* of the bytes read back from builds.json, then the file name
ExportSigned(l) ==
    /\ fernet[l] # Unconstructed
    /\ IF schema
       THEN \E q \in OrderedRows :
               LET entries == ExportScan(fernet[l], q)
                   bundle_json == JsonDumps(entries)
                   sha == Sha256(bundle_json)
               IN ret' = [op |-> "export_signed", logger |-> l, ok |-> TRUE,
                          builds_json |-> bundle_json,
                          builds_json_sha256 |-> [digest |-> sha, name |-> "builds.json"]]
       ELSE ret' = [op |-> "export_signed", logger |-> l, ok |-> FALSE]
    /\ UNCHANGED <<keyFile, keysMinted, schema, rows, seq, fernet, identity, now,
                   tampered, written>>
    /\ UNCHANGED <<proc, rowid, bld, disk>>

\* ------------------------------------------------------- trustnocorpo.build
\* md5 is taken as collision free on the strings hashed, also in its first
\* 16 hex digits: the identifier is the one-symbol str [md5 |-> content]
Md5Prefix(content) == <<[md5 |-> content]>>

\* an identifier made of the file and the classification alone
GenerateBuildHash_NoTimestamp(tex_file, classification, t) ==
    Md5Prefix(<<tex_file, classification>>)

GenerateBuildHash(tex_file, classification, t) ==
    Md5Prefix(<<tex_file, classification, IsoLocal(t)>>)

\* what build is called with: classification and recipient_token
BuildCalls == {[classification |-> "SECRET", recipient_token |-> "alice"],
               [classification |-> "PUBLIC", recipient_token |-> PyNone]}

\* one line of standard output
Line(what) == [line |-> what]
PasswordLine(only_password, used_password) ==
    [line |-> IF only_password THEN "password" ELSE "labelled password",
     value |-> used_password]

\* the PDF a compiler run writes: it carries the macros of the wrapper
RenderedPdf(build_hash, recipient_token) ==
    [build_hash |-> build_hash,
     token |-> IF recipient_token # PyNone THEN recipient_token ELSE PyNone]

\* the runs of the LaTeX compiler: the call raises, or the compiler exits
\* with a code after writing the PDF or without writing it
CompilerRuns ==
    {[raises |-> TRUE, exit |-> 1, wrote |-> FALSE]} \cup
    {[raises |-> FALSE, exit |-> e, wrote |-> w] : e \in {0, 1}, w \in BOOLEAN}

\* the runs of Ghostscript: gs on PATH or not, subprocess.run raising or
\* returning an exit code, and the output file afterwards
GsRuns ==
    {[on_path |-> FALSE, raises |-> FALSE, exit |-> 0, out |-> "missing"],
     [on_path |-> TRUE, raises |-> TRUE, exit |-> 0, out |-> "missing"]} \cup
    {[on_path |-> TRUE, raises |-> FALSE, exit |-> e, out |-> o] :
        e \in {0, 1}, o \in {"missing", "empty", "nonempty"}}

\* src.with_name(src.stem + f".r{dpi}.pdf")
RasterPath(pdf_path, dpi) ==
    SubSeq(pdf_path, 1, Len(pdf_path) - 1) \o <<[r |-> dpi], Ch(".pdf")>>

\* _rasterize_pdf without the test of the exit code
RasterizePdf_IgnoresExit(pdf_path, dpi, gs) ==
    IF ~gs.on_path THEN pdf_path
    ELSE IF gs.raises THEN pdf_path
    ELSE IF gs.out = "nonempty" THEN RasterPath(pdf_path, dpi)
    ELSE pdf_path

RasterizePdf(pdf_path, dpi, gs) ==
    IF ~gs.on_path THEN pdf_path
    ELSE IF gs.raises THEN pdf_path
    ELSE IF gs.exit = 0 /\ gs.out = "nonempty" THEN RasterPath(pdf_path, dpi)
    ELSE pdf_path

\* self._protect_pdf(pdf_path, build_hash, classification, pdf_password,
\* quiet): it returns the path of the protected file (the input file or a new
\* one), returns None, or raises
ProtectOutcomes == {"in_place", "new_file", "none", "raise"}
ProtectedPath(pdf_path, outcome) ==
    IF outcome = "new_file"
    THEN SubSeq(pdf_path, 1, Len(pdf_path) - 1) \o <<Ch("_protected"), Ch(".pdf")>>
    ELSE pdf_path
\* the secret of the installation the protector derives passwords from
InstallSecret == "install secret"
InstallSecrets == {InstallSecret, "other install secret"}
\* the derivation: a digest of the three inputs, taken as collision-free
DerivePassword(build_hash, classification, secret) ==
    <<[derived |-> <<build_hash, classification, secret>>]>>
\* PDFProtector._generate_context_password(build_hash, classification)
GenerateContextPassword(build_hash, classification) ==
    DerivePassword(build_hash, classification, InstallSecret)

\* the password reported is the derived one even when one was supplied
UsedPassword_AlwaysDerived(pdf_password, build_hash, classification) ==
    GenerateContextPassword(build_hash, classification)

\* pdf_password or self.pdf_protector._generate_context_password(...)
UsedPassword(pdf_password, build_hash, classification) ==
    IF Truthy(pdf_password) THEN pdf_password[1]
    ELSE GenerateContextPassword(build_hash, classification)

\* build returns: the call, its result and what it printed
BuildReturns(call, result, stdout, logged) ==
    [op |-> "build", call |-> call, result |-> result, stdout |-> stdout,
     logged |-> logged]

\* lines 135-156: the source file is looked up, the identifier generated
BuildStart(l, tex_exists, output_dir, m, protect_pdf, pdf_password, rasterize, only_password, t) ==
    /\ bld.pc = "idle"
    /\ fernet[l] # Unconstructed
    /\ seq < MaxInserts
    /\ t >= now
    /\ LET build_hash == GenerateBuildHash(MainFile, m.classification, t)
           call == [pc |-> "render", logger |-> l, tex_exists |-> tex_exists,
                    build_dir |-> output_dir,
                    classification |-> m.classification,
                    recipient_token |-> m.recipient_token,
                    protect_pdf |-> protect_pdf, pdf_password |-> pdf_password,
                    rasterize |-> rasterize, only_password |-> only_password,
                    t |-> t, build_hash |-> build_hash,
                    legacy |-> FALSE, latex_exit |-> 0, pdf_path |-> None,
                    pdf |-> NoFile, raster_path |-> None, protect |-> "off",
                    log_calls |-> 0,
                    stdout |-> IF only_password THEN <<>>
                               ELSE <<Line("building"), Line("build hash")>>]
       IN IF tex_exists
          THEN /\ bld' = call
               /\ ret' = [op |-> "step", at |-> "started"]
          ELSE /\ bld' = Idle
               /\ ret' = BuildReturns([call EXCEPT !.stdout = <<>>], None,
                                      <<Line("file not found")>>, FALSE)
    /\ UNCHANGED <<keyFile, keysMinted, schema, rows, seq, fernet, identity, now,
                   tampered, written, proc, rowid, disk>>

\* lines 170-188 and _run_latex_build: legacy is the call without the
\* keyword arguments, made when the call with them raised TypeError
BuildRender(legacy, run) ==
    /\ bld.pc = "render"
    /\ LET recipient_token == IF legacy THEN PyNone ELSE bld.recipient_token
           quiet == IF legacy THEN FALSE ELSE bld.only_password
           on_disk == IF ~run.raises /\ run.wrote
                      THEN RenderedPdf(bld.build_hash, recipient_token)
                      ELSE disk[bld.build_dir]
           found == ~run.raises /\ on_disk # NoFile
           printed ==
              IF quiet THEN <<>>
              ELSE IF run.raises THEN <<Line("latex build failed")>>
              ELSE <<Line("running"), Line("compiler output")>>
                   \o (IF run.exit # 0 THEN <<Line("latex exited")>> ELSE <<>>)
                   \o (IF found THEN <<>> ELSE <<Line("pdf not generated")>>)
           call == [bld EXCEPT !.legacy = legacy,
                               !.latex_exit = run.exit,
                               !.stdout = @ \o printed,
                               !.pdf_path = IF found THEN Some(PdfPathIn(bld.build_dir))
                                            ELSE None,
                               !.pdf = IF found THEN on_disk ELSE NoFile,
                               !.raster_path = IF found THEN Some(PdfPathIn(bld.build_dir))
                                               ELSE None,
                               !.pc = IF bld.rasterize THEN "raster"
                                      ELSE IF bld.protect_pdf THEN "protect"
                                      ELSE "log"]
       IN /\ disk' = [disk EXCEPT ![bld.build_dir] = on_disk]
          /\ IF found
             THEN /\ bld' = call
                  /\ ret' = [op |-> "step", at |-> "rendered", legacy |-> legacy,
                             run |-> run]
             ELSE /\ bld' = Idle
                  /\ ret' = BuildReturns(call, None, call.stdout, FALSE)
    /\ UNCHANGED <<keyFile, keysMinted, schema, rows, seq, fernet, identity, now,
                   tampered, written, proc, rowid>>

\* lines 190-195 and _rasterize_pdf
BuildRasterize(gs) ==
    /\ bld.pc = "raster"
    /\ LET out == RasterizePdf(bld.pdf_path[1], RasterDpi, gs)
       IN bld' = [bld EXCEPT !.pdf_path = Some(out), !.raster_path = Some(out),
                            !.pc = IF bld.protect_pdf THEN "protect" ELSE "log"]
    /\ ret' = [op |-> "step", at |-> "rasterized", gs |-> gs]
    /\ UNCHANGED <<keyFile, keysMinted, schema, rows, seq, fernet, identity, now,
                   tampered, written, proc, rowid, disk>>

\* lines 197-211, and 232-235 when the protect call raises
BuildProtect(outcome) ==
    /\ bld.pc = "protect"
    /\ LET used_password ==
              UsedPassword(bld.pdf_password, bld.build_hash, bld.classification)
           protected == outcome \in {"in_place", "new_file"}
           call == [bld EXCEPT
                      !.protect = outcome,
                      !.pc = "log",
                      !.pdf_path = IF protected
                                   THEN Some(ProtectedPath(bld.pdf_path[1], outcome))
                                   ELSE @,
                      !.stdout = @ \o
                         (IF protected
                          THEN <<PasswordLine(bld.only_password, used_password)>>
                          ELSE IF outcome = "raise" /\ ~bld.only_password
                          THEN <<Line("build failed")>>
                          ELSE <<>>)]
       IN IF outcome = "raise"
          THEN /\ bld' = Idle
               /\ ret' = BuildReturns(call, None, call.stdout, FALSE)
          ELSE /\ bld' = call
               /\ ret' = [op |-> "step", at |-> "protected", outcome |-> outcome]
    /\ UNCHANGED <<keyFile, keysMinted, schema, rows, seq, fernet, identity, now,
                   tampered, written, proc, rowid, disk>>

\* the pdf_path argument of _log_build if it were the rendered file
LogPdfPath_Rendered(call) == PdfPathIn(call.build_dir)

\* the pdf_path argument of _log_build: the path as it is after the
\* rasterization and protection steps
LogPdfPath(call) == call.pdf_path[1]

\* lines 213-230 and _log_build: log_build runs (with its output discarded
\* under only_password) and build returns the path whatever log_build returned
\* the clock has advanced by dt since it was last read
BuildLog(dt) ==
    /\ bld.pc = "log"
    /\ LET l == bld.logger
           t == (IF bld.t > now THEN bld.t ELSE now) + dt
           ok == IsFernetKey(fernet[l]) /\ GetUserFingerprintOk /\ schema
           build_data == BuildDataOf(bld.build_hash, bld.classification, MainFile,
                                     LogPdfPath(bld), bld.pdf_password,
                                     bld.recipient_token, t)
           row == NewRowOf(fernet[l], bld.build_hash, build_data, t)
           printed ==
              IF bld.only_password THEN <<>>
              ELSE (IF ok THEN <<Line("build logged"), Line("user fingerprint")>>
                    ELSE <<Line("build logging failed")>>)
                   \o <<Line("pdf generated")>>
           call == [bld EXCEPT !.stdout = @ \o printed, !.pc = "done",
                               !.log_calls = @ + 1]
       IN /\ rows' = IF ok THEN InsertOrReplace(rows, row) ELSE rows
          /\ seq' = IF ok THEN seq + 1 ELSE seq
          /\ now' = IF ok THEN t ELSE now
          /\ written' = IF ok THEN [written EXCEPT ![bld.build_hash] = row] ELSE written
          /\ ret' = BuildReturns(call, bld.pdf_path, call.stdout, ok)
    /\ bld' = Idle
    /\ UNCHANGED <<keyFile, keysMinted, schema, fernet, identity, tampered, proc,
                   rowid, disk>>

\* ------------------------------------------ BuildLogger.get_user_builds_stats
\* two SELECT COUNT(*); the except returns zeros and 'unknown'
GetUserBuildsStats(l) ==
    /\ fernet[l] # Unconstructed
    /\ ret' = IF GetUserFingerprintOk /\ schema
              THEN [op |-> "get_user_builds_stats", logger |-> l,
                    user_builds |->
                       Cardinality({r \in rows : r.user_fingerprint = GetUserFingerprint}),
                    total_builds |-> Cardinality(rows),
                    user_fingerprint |-> GetUserFingerprint]
              ELSE [op |-> "get_user_builds_stats", logger |-> l,
                    user_builds |-> 0, total_builds |-> 0,
                    user_fingerprint |-> "unknown"]
    /\ UNCHANGED <<keyFile, keysMinted, schema, rows, seq, fernet, identity, now,
                   tampered, written, proc, rowid, bld, disk>>

\* ------------------------------------------------- trustnocorpo.validate_pdf
\* PDFProtector.extract_tokens(pdf_path): the sets of tokens it can return
ExtractedTokens == SUBSET Tokens
\* sorted(tokens)
TokenOrder == <<"alice", "bob">>
Sorted(tokens) == SelectSeq(TokenOrder, LAMBDA token : token \in tokens)

\* the loop over the tokens that ends at the first token without a match
RECURSIVE ValidateScan_StopsAtMiss(_, _, _)
ValidateScan_StopsAtMiss(k, tokens, results) ==
    IF tokens = <<>> THEN <<>>
    ELSE LET match == IF schema THEN FindScan(k, Head(results), Head(tokens))
                      ELSE <<>>
         IN IF match # <<>>
            THEN match \o ValidateScan_StopsAtMiss(k, Tail(tokens), Tail(results))
            ELSE <<>>

\* the loop over the tokens, in the order the set yields them; results holds
\* the rows each find_by_recipient_token call fetched
RECURSIVE ValidateScan(_, _, _)
ValidateScan(k, tokens, results) ==
    IF tokens = <<>> THEN <<>>
    ELSE LET match == IF schema THEN FindScan(k, Head(results), Head(tokens))
                      ELSE <<>>
         IN (IF match # <<>> THEN match ELSE <<>>)
            \o ValidateScan(k, Tail(tokens), Tail(results))

\* extract_tokens returns the set tokens, or raises
ValidatePdf(l, tokens, raises) ==
    /\ fernet[l] # Unconstructed
    /\ \E order \in Perms(tokens) :
       \E results \in [1..Len(order) -> OrderedRows] :
          ret' = [op |-> "validate_pdf", logger |-> l, tokens |-> tokens,
                  raised |-> raises,
                  report |-> IF raises THEN None
                             ELSE Some([pdf |-> PdfPath,
                                        tokens |-> Sorted(tokens),
                                        matches |-> ValidateScan(fernet[l], order,
                                                                 results)])]
    /\ UNCHANGED <<keyFile, keysMinted, schema, rows, seq, fernet, identity, now,
                   tampered, written, proc, rowid, bld, disk>>

\* ------------------------------------------------ trustnocorpo.fanout_builds
\* the CSV files: each row gives a token (the first non-empty of its columns
\* recipient, id, token) or none
CsvFiles == UNION {[1..n -> Tokens \cup {PyNone}] : n \in 0..MaxInserts}

\* lines 642-647: the run of process p starts; the except of lines 668-670
\* returns False when the output directory or the CSV file cannot be opened
FanoutStart(p, l, csv, readable) ==
    /\ proc[p].pc = "idle"
    /\ \A q \in Procs : proc[q].pc = "idle"
    /\ bld.pc = "idle"
    /\ fernet[l] # Unconstructed
    /\ IF readable
       THEN /\ proc' = [proc EXCEPT ![p] =
                           [pc |-> "fanout", logger |-> l, csv |-> csv, ok |-> TRUE,
                            attempted |-> <<>>, results |-> <<>>]]
            /\ ret' = [op |-> "step", proc |-> p, at |-> "fanout_started"]
       ELSE /\ proc' = proc
            /\ ret' = [op |-> "fanout_builds", logger |-> l, csv |-> csv,
                       attempted |-> <<>>, results |-> <<>>, result |-> FALSE]
    /\ UNCHANGED <<keyFile, keysMinted, schema, rows, seq, fernet, identity, now,
                   tampered, written, rowid, bld, disk>>

\* lines 649-654: the next row is read; a row without a token is skipped
FanoutRow(p) ==
    /\ proc[p].pc = "fanout"
    /\ proc[p].csv # <<>>
    /\ LET token == Head(proc[p].csv)
       IN IF token = PyNone
          THEN /\ proc' = [proc EXCEPT ![p].csv = Tail(@)]
               /\ ret' = [op |-> "step", proc |-> p, at |-> "fanout_skipped"]
          ELSE /\ proc' = [proc EXCEPT ![p].csv = Tail(@), ![p].pc = "fanout_build",
                                       ![p].attempted = Append(@, token)]
               /\ ret' = [op |-> "step", proc |-> p, at |-> "fanout_row",
                          token |-> token]
    /\ UNCHANGED <<keyFile, keysMinted, schema, rows, seq, fernet, identity, now,
                   tampered, written, rowid, bld, disk>>

\* line 666: ok = ok and bool(res), once the build of the row has returned
FanoutCollect(p) ==
    /\ proc[p].pc = "fanout_build"
    /\ ret.op = "build"
    /\ proc' = [proc EXCEPT ![p].pc = "fanout",
                            ![p].ok = @ /\ Truthy(ret.result),
                            ![p].results = Append(@, ret.result)]
    /\ ret' = [op |-> "step", proc |-> p, at |-> "fanout_collected"]
    /\ UNCHANGED <<keyFile, keysMinted, schema, rows, seq, fernet, identity, now,
                   tampered, written, rowid, bld, disk>>

\* line 667: return ok
FanoutReturn(p) ==
    /\ proc[p].pc = "fanout"
    /\ proc[p].csv = <<>>
    /\ proc' = [proc EXCEPT ![p] = Idle]
    /\ ret' = [op |-> "fanout_builds", logger |-> proc[p].logger,
               attempted |-> proc[p].attempted, results |-> proc[p].results,
               result |-> proc[p].ok]
    /\ UNCHANGED <<keyFile, keysMinted, schema, rows, seq, fernet, identity, now,
                   tampered, written, rowid, bld, disk>>

\* ------------------------------------------------------------ environment
\* IdentityStore generate / reset: the persisted identity changes
SetIdentity(fp) ==
    /\ fp # identity
    /\ identity' = fp
    /\ ret' = [op |-> "env", what |-> "identity"]
    /\ UNCHANGED <<keyFile, keysMinted, schema, rows, seq, fernet, now,
                   tampered, written>>
    /\ UNCHANGED <<proc, rowid, bld, disk>>

\* what a writer of the backing store, who holds no ledger key, can put into
\* the encrypted_data column of a row: text that is no token, the row's text
\* with one byte flipped, or the text of any stored row
Garbage == <<Ch("x")>>
Flip(text) ==
    IF B64DecodeOk(text)
    THEN <<[b64 |-> [B64Decode(text) EXCEPT !.flipped = TRUE]]>>
    ELSE Garbage
TamperValues(row) ==
    {Garbage, Flip(row.encrypted_data)} \cup {r.encrypted_data : r \in rows}

TamperData(build_hash, data) ==
    /\ tampered < MaxTamper
    /\ \E row \in RowsOf(build_hash) :
          /\ data \in TamperValues(row)
          /\ data # row.encrypted_data
          /\ rows' = (rows \ {row}) \cup {[row EXCEPT !.encrypted_data = data]}
    /\ tampered' = tampered + 1
    /\ ret' = [op |-> "env", what |-> "tamper_data", build_hash |-> build_hash]
    /\ UNCHANGED <<keyFile, keysMinted, schema, seq, fernet, identity, now, written>>
    /\ UNCHANGED <<proc, rowid, bld, disk>>

\* a writer of the backing store who holds no ledger key files the
\* ciphertext of a stored row under another identifier, with the tag
\* sha256(identifier + ciphertext), which needs no key
ForgeRow(build_hash, source) ==
    /\ tampered < MaxTamper
    /\ source \in rows
    /\ source.build_hash # build_hash
    /\ LET forged == [source EXCEPT
                        !.build_hash = build_hash,
                        !.user_signature = Sha256(build_hash \o source.encrypted_data)]
       IN rows' = {r \in rows : r.build_hash # build_hash} \cup {forged}
    /\ tampered' = tampered + 1
    /\ ret' = [op |-> "env", what |-> "forge_row", build_hash |-> build_hash]
    /\ UNCHANGED <<keyFile, keysMinted, schema, seq, fernet, identity, now, written>>
    /\ UNCHANGED <<proc, rowid, bld, disk>>

TamperFingerprint(build_hash, fp) ==
    /\ tampered < MaxTamper
    /\ \E row \in RowsOf(build_hash) :
          /\ fp # row.user_fingerprint
          /\ rows' = (rows \ {row}) \cup {[row EXCEPT !.user_fingerprint = fp]}
    /\ tampered' = tampered + 1
    /\ ret' = [op |-> "env", what |-> "tamper_fingerprint", build_hash |-> build_hash]
    /\ UNCHANGED <<keyFile, keysMinted, schema, seq, fernet, identity, now, written>>
    /\ UNCHANGED <<proc, rowid, bld, disk>>

\* the key file is lost
DeleteKeyFile ==
    /\ tampered < MaxTamper
    /\ keyFile # NoFile
    /\ keyFile' = NoFile
    /\ tampered' = tampered + 1
    /\ ret' = [op |-> "env", what |-> "delete_key_file"]
    /\ UNCHANGED <<keysMinted, schema, rows, seq, fernet, identity, now, written>>
    /\ UNCHANGED <<proc, rowid, bld, disk>>

\* the key file is replaced by a foreign one: the key of another ledger, or
\* bytes that are no Fernet key
ForeignKeyFile(valid) ==
    /\ tampered < MaxTamper
    /\ keyFile' = IF valid THEN FernetKey(keysMinted + 1) ELSE BadKey
    /\ keyFile' # keyFile
    /\ keysMinted' = IF valid THEN keysMinted + 1 ELSE keysMinted
    /\ tampered' = tampered + 1
    /\ ret' = [op |-> "env", what |-> "foreign_key_file"]
    /\ UNCHANGED <<schema, rows, seq, fernet, identity, now, written>>
    /\ UNCHANGED <<proc, rowid, bld, disk>>

\* ------------------------------------------------------------ specifications
\* the operations of the ledger itself
LedgerStep ==
    \/ \E l \in Loggers : Open(l)
    \/ \E l \in Loggers, b \in BuildHashes, m \in Builds, t \in {now, now + 1} :
          LogBuild(l, b, m.classification, m.recipient_token, t)
    \/ \E l \in Loggers, b \in BuildHashes : VerifyBuild(l, b)
    \/ \E l \in Loggers, n \in Limits : ListBuilds(l, n)
    \/ \E l \in Loggers, t \in QueryTokens : FindByRecipientToken(l, t)
    \/ \E l \in Loggers : ExportSigned(l)

ProgramStep ==
    \/ LedgerStep
    \/ \E l \in Loggers : InitProject(l)

BenignStep ==
    \E fp \in Fingerprints \cup {NoIdentity} : SetIdentity(fp)

FaultStep ==
    \/ \E b \in BuildHashes, d \in UNION {TamperValues(r) : r \in rows} : TamperData(b, d)
    \/ \E b \in BuildHashes, fp \in Fingerprints : TamperFingerprint(b, fp)
    \/ DeleteKeyFile
    \/ \E valid \in BOOLEAN : ForeignKeyFile(valid)

NextNoTamper == ProgramStep \/ BenignStep
\* one user, whose identity is generated once, and a writer of the
\* encrypted_data column
NextCorrupt ==
    \/ LedgerStep
    \/ \E fp \in Fingerprints : identity = NoIdentity /\ SetIdentity(fp)
    \/ \E b \in BuildHashes, d \in UNION {TamperValues(r) : r \in rows} : TamperData(b, d)
Next == ProgramStep \/ BenignStep \/ FaultStep

\* leak validation against a ledger that builds are logged to and whose
\* encrypted_data column can be written
NextValidate ==
    \/ \E l \in Loggers : Open(l)
    \/ \E l \in Loggers, b \in BuildHashes, m \in Builds, t \in {now, now + 1} :
          LogBuild(l, b, m.classification, m.recipient_token, t)
    \/ \E fp \in Fingerprints : identity = NoIdentity /\ SetIdentity(fp)
    \/ \E b \in BuildHashes, d \in UNION {TamperValues(r) : r \in rows} : TamperData(b, d)
    \/ \E l \in Loggers, tokens \in ExtractedTokens, raises \in BOOLEAN :
          ValidatePdf(l, tokens, raises)

\* several processes write through their own connections while one reads
NextConc ==
    \/ \E l \in Loggers : Open(l)
    \/ \E fp \in Fingerprints : identity = NoIdentity /\ SetIdentity(fp)
    \/ \E p \in Procs, l \in Loggers, b \in BuildHashes, m \in Builds, t \in {now, now + 1} :
          LogBuildPrepare(p, l, b, m.classification, m.recipient_token, t)
    \/ \E p \in Procs : LogBuildExecute(p)
    \/ \E p \in Procs : LogBuildBusy(p)
    \/ \E p \in Procs : LogBuildCommit(p)
    \/ \E p \in Procs : LogBuildAbort(p)
    \/ \E l \in Loggers, b \in BuildHashes : VerifyBuild(l, b)
    \/ \E l \in Loggers, n \in Limits : ListBuilds(l, n)
    \/ \E l \in Loggers, t \in QueryTokens : FindByRecipientToken(l, t)

\* the steps of a build between its start and its log_build
BuildStep ==
    \/ \E legacy \in BOOLEAN, run \in CompilerRuns : BuildRender(legacy, run)
    \/ \E gs \in GsRuns : BuildRasterize(gs)
    \/ \E outcome \in ProtectOutcomes : BuildProtect(outcome)

\* the builds of a project until the first of them is logged, with every
\* choice of options, statement by statement
NextBuild ==
    \/ \E l \in Loggers : Open(l)
    \/ identity = NoIdentity /\ SetIdentity("fpA")
    \/ \E l \in Loggers, tex_exists \in BOOLEAN, m \in BuildCalls,
          protect_pdf \in BOOLEAN, pdf_password \in Passwords,
          rasterize \in BOOLEAN, only_password \in BOOLEAN, t \in {now, now + 1} :
          /\ rows = {}
          /\ tex_exists \/ (protect_pdf /\ pdf_password = None /\ ~rasterize)
          /\ BuildStart(l, tex_exists, "build", m, protect_pdf, pdf_password,
                        rasterize, only_password, t)
    \/ BuildStep
    \/ BuildLog(0)

\* fanout_builds: one build after the other of the same file and
\* classification, each with the recipient token of its row, in the directory
\* of that token, with the options of lines 655-665; _run_latex_build is the
\* method of lines 502-588, which takes the keyword arguments of line 172
FanoutClassification == "SECRET"
NextFanout ==
    \/ \E l \in Loggers : Open(l)
    \/ identity = NoIdentity /\ SetIdentity("fpA")
    \/ \E l \in Loggers, tex_exists \in BOOLEAN, token \in Tokens, t \in {now, now + 1} :
          BuildStart(l, tex_exists, token,
                     [classification |-> FanoutClassification, recipient_token |-> token],
                     TRUE, None, FALSE, FALSE, t)
    \/ \E run \in CompilerRuns : BuildRender(FALSE, run)
    \/ \E outcome \in ProtectOutcomes : BuildProtect(outcome)
    \/ \E dt \in {0, 1} : BuildLog(dt)

\* a fan-out run over a CSV file, row by row and build step by build step
NextFanoutRun ==
    \/ \E l \in Loggers : Open(l)
    \/ identity = NoIdentity /\ SetIdentity("fpA")
    \/ \E l \in Loggers, csv \in CsvFiles, readable \in BOOLEAN :
          FanoutStart("p1", l, csv, readable)
    \/ FanoutRow("p1")
    \/ \E tex_exists \in BOOLEAN, t \in {now, now + 1} :
          /\ proc["p1"].pc = "fanout_build"
          /\ ret.op = "step" /\ ret.at = "fanout_row"
          /\ BuildStart(proc["p1"].logger, tex_exists, ret.token,
                        [classification |-> FanoutClassification,
                         recipient_token |-> ret.token],
                        TRUE, None, FALSE, FALSE, t)
    \/ \E run \in CompilerRuns : BuildRender(FALSE, run)
    \/ \E outcome \in ProtectOutcomes : BuildProtect(outcome)
    \/ \E dt \in {0, 1} : BuildLog(dt)
    \/ FanoutCollect("p1")
    \/ FanoutReturn("p1")

SpecFanoutRun == Init /\ [][NextFanoutRun]_vars

\* the ledger and whoever can write its backing files
Spec == Init /\ [][Next]_vars
\* the ledger written by the program alone
SpecNoTamper == Init /\ [][NextNoTamper]_vars
\* the ledger and a writer of the encrypted_data column
SpecCorrupt == Init /\ [][NextCorrupt]_vars
\* the ledger under concurrent writers and readers
SpecConc == Init /\ [][NextConc]_vars
\* two processes that open the ledger, each through its own handle
NextOpen ==
    \/ \E p \in Procs : OpenCheck(p)
    \/ \E p \in Procs : OpenKey(p)
    \/ \E fp \in Fingerprints : identity = NoIdentity /\ SetIdentity(fp)
    \/ \E p \in Procs, b \in BuildHashes, m \in Builds, t \in {now, now + 1} :
          HandleLogBuild(p, b, m.classification, m.recipient_token, t)
    \/ \E p \in Procs, b \in BuildHashes : HandleVerifyBuild(p, b)

SpecOpen == Init /\ [][NextOpen]_vars

\* the ledger and a writer of whole rows who holds no key
NextForge ==
    \/ \E l \in Loggers : Open(l)
    \/ \E l \in Loggers, b \in BuildHashes, m \in Builds, t \in {now, now + 1} :
          LogBuild(l, b, m.classification, m.recipient_token, t)
    \/ \E fp \in Fingerprints : identity = NoIdentity /\ SetIdentity(fp)
    \/ \E l \in Loggers, b \in BuildHashes : VerifyBuild(l, b)
    \/ \E b \in BuildHashes, source \in rows : ForgeRow(b, source)

SpecForge == Init /\ [][NextForge]_vars

\* the ledger, its readers and a writer of the encrypted_data column
NextReaders ==
    \/ NextCorrupt
    \/ \E l \in Loggers : GetUserBuildsStats(l)

SpecReaders == Init /\ [][NextReaders]_vars

\* the commands that create, replace and remove the identity
NextKeys ==
    \/ \E l \in Loggers : Open(l)
    \/ \E force \in BOOLEAN, in \in KeyPrompts : CmdKeysGenerate(force, in)
    \/ \E confirm \in BOOLEAN, success \in BOOLEAN : CmdKeysReset(confirm, success)
    \/ \E l \in Loggers, force \in BOOLEAN, dir_exists \in BOOLEAN, in \in KeyPrompts :
          InitProjectSetup(l, force, dir_exists, in)

\* identity management
SpecKeys == Init /\ [][NextKeys]_vars
\* leak validation
SpecValidate == Init /\ [][NextValidate]_vars
\* builds of one project
SpecBuild == Init /\ [][NextBuild]_vars
\* the builds of a fan-out run
SpecFanout == Init /\ [][NextFanout]_vars

TypeOK ==
    /\ keysMinted \in 0..(MaxTamper + 1)
    /\ schema \in BOOLEAN
    /\ seq \in 0..MaxInserts
    /\ now \in 0..(2 * MaxInserts)
    /\ tampered \in 0..MaxTamper
    /\ identity \in Fingerprints \cup {NoIdentity}
    /\ \A r \in rows : r.build_hash \in AllBuildHashes /\ r.id \in 1..seq
    /\ bld.pc \in {"idle", "render", "raster", "protect", "log"}
    /\ rowid \in 0..MaxInserts
    /\ \A p \in Procs :
          proc[p].pc \in {"idle", "prepared", "executed", "checked", "opened",
                          "fanout", "fanout_build"}
    /\ Cardinality(LockHolders) <= 1

\* ------------------------------------------------------------------ claims
Constructed == {l \in Loggers : fernet[l] # Unconstructed}
DecryptableRows(k) == {r \in rows : Decryptable(k, r.encrypted_data)}
\* the stored row of this build_hash is the row log_build wrote, untouched
AsWritten(r) == written[r.build_hash] = r

\* C1: whenever log_build(id, ...) returned a record id, the verify_build(id)
\* issued next through the same handle returns True.
C1_VerifyAfterLogBuild ==
    [][(/\ ret.op = "log_build"
        /\ ret.ok
        /\ ret'.op = "verify_build"
        /\ ret'.logger = ret.logger
        /\ ret'.build_hash = ret.build_hash)
       => (ret'.result /\ ret'.outcome = "Verified")]_vars

\* a verify_build returned True for the row of the latest insert, which
\* replaced an earlier row of the same build_hash
C1_Witness ==
    /\ ret.op = "verify_build"
    /\ ret.result
    /\ seq = 2
    /\ Cardinality(rows) = 1
    /\ \E r \in RowsOf(ret.build_hash) : r.id = seq

\* C2: a row whose encrypted_data differs from what log_build wrote, while its
\* user_signature is the one log_build wrote, fails verify_build at the tag
\* comparison: the outcome is TagMismatch, for every handle and also when the
\* new encrypted_data would decrypt.
C2_TamperedCiphertextFailsAtTag ==
    \A r \in rows :
        LET w == written[r.build_hash]
        IN (/\ w # NoRow
            /\ r.user_signature = w.user_signature
            /\ r.encrypted_data # w.encrypted_data)
           => /\ \A l \in Constructed :
                    VerifyOutcome(fernet[l], r.build_hash) = "TagMismatch"
              /\ (ret.op = "verify_build" /\ ret.build_hash = r.build_hash)
                    => (ret.outcome = "TagMismatch" /\ ~ret.result)

\* verify_build reported TagMismatch for a row whose ciphertext was replaced
\* by one that decrypts under the handle's key
C2_Witness ==
    /\ ret.op = "verify_build"
    /\ ret.outcome = "TagMismatch"
    /\ \E r \in RowsOf(ret.build_hash) :
          /\ r.encrypted_data # written[r.build_hash].encrypted_data
          /\ r.user_signature = written[r.build_hash].user_signature
          /\ Decryptable(fernet[ret.logger], r.encrypted_data)

\* C3: there is at most one row per build_hash; a successful log_build leaves
\* exactly one row for its build_hash, whose ciphertext, fingerprint, tag,
\* timestamp and id all come from this call, and leaves the rows of the other
\* identifiers alone; list_builds never returns two summaries with the same
\* build_hash.
C3_UniqueRow ==
    \A r1 \in rows, r2 \in rows : r1.build_hash = r2.build_hash => r1 = r2

C3_ListDistinct ==
    ret.op = "list_builds" =>
        \A i \in 1..Len(ret.builds), j \in 1..Len(ret.builds) :
            i # j => ret.builds[i].build_hash # ret.builds[j].build_hash

C3_Replaces ==
    (ret'.op = "log_build" /\ ret'.ok) =>
        /\ Cardinality({r \in rows' : r.build_hash = ret'.build_hash}) = 1
        /\ \A r \in rows' :
              r.build_hash = ret'.build_hash =>
                 /\ r.timestamp_utc >= now
                 /\ r.timestamp_utc = now'
                 /\ r.user_fingerprint = identity
                 /\ r.user_signature = Sha256(r.build_hash \o r.encrypted_data)
                 /\ r.id = ret'.build_id
                 /\ r.id \notin {o.id : o \in rows}
                 /\ r.encrypted_data \notin {o.encrypted_data : o \in rows}
                 /\ Decryptable(fernet[ret'.logger], r.encrypted_data)
                 /\ DecryptRow(r.encrypted_data).build_hash = ret'.build_hash
                 /\ DecryptRow(r.encrypted_data).classification = ret'.classification
                 /\ DecryptRow(r.encrypted_data).recipient_token = ret'.recipient_token
                 /\ DecryptRow(r.encrypted_data).timestamp_iso = IsoLocal(now')
        /\ {r \in rows' : r.build_hash # ret'.build_hash}
              = {r \in rows : r.build_hash # ret'.build_hash}

C3_OneRowPerBuildHash ==
    /\ [](C3_UniqueRow /\ C3_ListDistinct)
    /\ [][C3_Replaces]_vars

\* the second successful log_build went to the build_hash of the first: one
\* row is stored and it is not the first one
C3_Witness ==
    /\ ret.op = "log_build"
    /\ ret.ok
    /\ ret.build_id = 2
    /\ Cardinality(rows) = 1
    /\ \A r \in rows : r.id = 2

\* C4: in every state of a ledger written by log_build alone, every row has
\* user_signature = sha256(build_hash ++ encrypted_data as stored), so
\* verify_build, which recomputes the tag from these two columns, never
\* reports a tag mismatch, whatever the current identity, clock or handle key.
C4_TagOverStoredColumns ==
    /\ \A r \in rows :
          /\ r.user_signature = Sha256(r.build_hash \o r.encrypted_data)
          /\ \A l \in Constructed :
                VerifyOutcome(fernet[l], r.build_hash) # "TagMismatch"
    /\ ret.op = "verify_build" => ret.outcome # "TagMismatch"

\* a replaced row verified after the identity that wrote it was changed
C4_Witness ==
    /\ ret.op = "verify_build"
    /\ ret.outcome = "Verified"
    /\ seq = 2
    /\ \E r \in RowsOf(ret.build_hash) : r.id = 2 /\ r.user_fingerprint # identity

\* C5 (as claimed): a row whose user_fingerprint differs from the one
\* log_build wrote, with ciphertext and tag untouched, does not verify:
\* verify_build of its build_hash returns False.
C5_FingerprintChangeFailsVerify ==
    \A r \in rows :
        LET w == written[r.build_hash]
        IN (/\ w # NoRow
            /\ r.user_fingerprint # w.user_fingerprint
            /\ r.encrypted_data = w.encrypted_data
            /\ r.user_signature = w.user_signature)
           => ((ret.op = "verify_build" /\ ret.build_hash = r.build_hash)
                  => ~ret.result)

\* C6: find_by_recipient_token(t) returns None when no row that decrypts
\* under the handle's key has recipient_token = t, and otherwise the summary
\* of such a row than which no other such row has a greater timestamp_utc.
MatchingRows(k, token) ==
    {r \in DecryptableRows(k) : DecryptRow(r.encrypted_data).recipient_token = token}

C6_FindMostRecentMatch ==
    ret.op = "find_by_recipient_token" =>
        LET M == MatchingRows(fernet[ret.logger], ret.token)
        IN IF M = {} THEN ret.match = <<>>
           ELSE \E r \in M :
                   /\ ret.match = <<FindSummary(r, DecryptRow(r.encrypted_data))>>
                   /\ ret.match[1].build_hash = r.build_hash
                   /\ \A o \in M : o.timestamp_utc <= r.timestamp_utc

\* a match was returned although a newer row does not decrypt
C6_Witness ==
    /\ ret.op = "find_by_recipient_token"
    /\ ret.match # <<>>
    /\ \E r \in RowsOf(ret.match[1].build_hash), c \in rows :
          /\ ~Decryptable(fernet[ret.logger], c.encrypted_data)
          /\ c.timestamp_utc > r.timestamp_utc

\* C7: list_builds(limit) returns at most limit summaries, each the summary
\* of a distinct row that decrypts, in descending order of the rows'
\* timestamp_utc; when limit covers the table, every row that decrypts is
\* listed, however many rows do not.
C7_ListSkipsCorrupt ==
    ret.op = "list_builds" =>
        LET D == DecryptableRows(fernet[ret.logger])
            b == ret.builds
        IN /\ Len(b) <= ret.limit
           /\ \A i \in 1..Len(b) :
                 \E r \in D : /\ b[i] = ListSummary(r, DecryptRow(r.encrypted_data))
                              /\ b[i].build_hash = r.build_hash
           /\ \A i \in 1..Len(b), j \in 1..Len(b) :
                 i < j =>
                    /\ b[i].build_hash # b[j].build_hash
                    /\ \A ri \in RowsOf(b[i].build_hash), rj \in RowsOf(b[j].build_hash) :
                          ri.timestamp_utc >= rj.timestamp_utc
           /\ ret.limit >= Cardinality(rows) =>
                 {b[i].build_hash : i \in 1..Len(b)} = {r.build_hash : r \in D}

\* two rows, one corrupted: the listing holds the other one alone
C7_Witness ==
    /\ ret.op = "list_builds"
    /\ ret.limit = 2
    /\ Cardinality(rows) = 2
    /\ Len(ret.builds) = 1
    /\ \E r \in rows : ~Decryptable(fernet[ret.logger], r.encrypted_data)

\* C8: a successful export_signed writes one entry per row that decrypts
\* (none for an empty table), each with the row's build_hash and
\* user_fingerprint columns and the decrypted metadata, and a checksum file
\* whose digest is the sha256 of the bytes of builds.json.
C8_ExportMatchesLedger ==
    (ret.op = "export_signed" /\ ret.ok) =>
        LET D == DecryptableRows(fernet[ret.logger])
            entries == JsonLoads(ret.builds_json)
        IN /\ Len(entries) = Cardinality(D)
           /\ \A r \in D :
                 \E i \in 1..Len(entries) :
                    /\ entries[i].build_hash = r.build_hash
                    /\ entries[i].user_fingerprint = r.user_fingerprint
                    /\ entries[i].recipient_token =
                          DecryptRow(r.encrypted_data).recipient_token
                    /\ entries[i].classification =
                          DecryptRow(r.encrypted_data).classification
                    /\ entries[i].timestamp_iso =
                          DecryptRow(r.encrypted_data).timestamp_iso
           /\ ret.builds_json_sha256.digest = Sha256(ret.builds_json)
           /\ ret.builds_json_sha256.name = "builds.json"

\* an export of a table of two rows, one of them corrupted, holds one entry
C8_Witness ==
    /\ ret.op = "export_signed"
    /\ ret.ok
    /\ Cardinality(rows) = 2
    /\ Len(JsonLoads(ret.builds_json)) = 1

\* C9 (as claimed): an initialisation that finds rows in the store but no key
\* file, or a key file under which a row written by log_build does not
\* decrypt, writes no key and leaves the handle without a key.
KeyFileMismatch ==
    /\ rows # {}
    /\ \/ keyFile = NoFile
       \/ \E r \in rows : AsWritten(r) /\ ~Decryptable(keyFile, r.encrypted_data)

C9_OpenRefusesKeyMismatch ==
    [][(ret'.op \in {"open", "init_project"} /\ KeyFileMismatch)
       => (keyFile' = keyFile /\ ~IsFernetKey(fernet'[ret'.logger]))]_vars

\* C10: a step of the program changes the key file only when there is none;
\* an initialisation that finds a key in the key file loads that key and
\* leaves the rows unchanged; a handle opened twice in a row changes nothing
\* the second time.
C10_OpenIdempotent ==
    [][ret'.op # "env" =>
          /\ keyFile # NoFile => keyFile' = keyFile
          /\ (ret'.op \in {"open", "init_project"} /\ IsFernetKey(keyFile)) =>
                /\ fernet'[ret'.logger] = keyFile
                /\ rows' = rows
          /\ (ret'.op = "open" /\ ret = ret') =>
                UNCHANGED <<keyFile, schema, rows, seq, fernet>>]_vars

\* a ledger with a row was reopened: the handle holds the one key ever made
C10_Witness ==
    /\ ret.op = "open"
    /\ rows # {}
    /\ keysMinted = 1
    /\ fernet[ret.logger] = keyFile
    /\ \A r \in rows : Decryptable(fernet[ret.logger], r.encrypted_data)

\* C11: under concurrent writers, every committed row is whole: it is the
\* row of the last insert committed for its build_hash, with all columns from
\* that one insert and the tag of its identifier and ciphertext; a commit
\* leaves exactly the committing insert's row for its build_hash and the other
\* rows alone; what verify_build, list_builds and find_by_recipient_token
\* return is taken from whole rows.
C11_RowsWhole ==
    \A r \in rows :
        /\ r = written[r.build_hash]
        /\ r.user_signature = Sha256(r.build_hash \o r.encrypted_data)
        /\ \A o \in rows : o.build_hash = r.build_hash => o = r

C11_ReadersWhole ==
    /\ ret.op = "verify_build" => ret.outcome \in {"NotFound", "Verified"}
    /\ ret.op = "list_builds" =>
          \A i \in 1..Len(ret.builds) :
             \E r \in rows : ret.builds[i] = ListSummary(r, DecryptRow(r.encrypted_data))
    /\ (ret.op = "find_by_recipient_token" /\ ret.match # <<>>) =>
          \E r \in rows : ret.match[1] = FindSummary(r, DecryptRow(r.encrypted_data))

C11_LastCommitWins ==
    (ret'.op = "log_build" /\ ret'.ok) =>
        /\ {r \in rows' : r.build_hash = ret'.build_hash} = {proc[ret'.proc].row}
        /\ {r \in rows' : r.build_hash # ret'.build_hash}
              = {r \in rows : r.build_hash # ret'.build_hash}

C11_NoPartialRow ==
    /\ [](C11_RowsWhole /\ C11_ReadersWhole)
    /\ [][C11_LastCommitWins]_vars

\* two inserts for one build_hash were in flight together; the one encrypted
\* first committed last and its row is the one stored
C11_Witness ==
    /\ ret.op = "log_build"
    /\ ret.ok
    /\ rowid = 2
    /\ Cardinality(rows) = 1
    /\ \A r \in rows : r.id = 2 /\ B64Decode(r.encrypted_data).iv = 1

\* C12: a log_build that returns None leaves the stored rows as they were at
\* each of its steps; the rows change only in the step in which a log_build
\* returns a build id, and a row still waiting for its commit is not stored.
C12_FailedLeavesRows ==
    (ret'.op = "log_build" /\ ~ret'.ok) => rows' = rows

C12_OnlyCommitWrites ==
    rows' # rows => (ret'.op = "log_build" /\ ret'.ok)

C12_PendingNotStored ==
    \A p \in Procs : proc[p].pc # "idle" => proc[p].row \notin rows

C12_AllOrNothing ==
    /\ [][C12_FailedLeavesRows /\ C12_OnlyCommitWrites]_vars
    /\ []C12_PendingNotStored

\* a log_build for a build_hash that has a row failed at its commit
C12_Witness ==
    /\ ret.op = "log_build"
    /\ ~ret.ok
    /\ ret.raised = "commit"
    /\ RowsOf(ret.build_hash) # {}

\* ------------------------------------------------------------------ C13
\* the ledger of handle l can take a record: key loaded, identity present
LedgerReady(l) == IsFernetKey(fernet[l]) /\ GetUserFingerprintOk /\ schema
\* the metadata stored for the build that just returned
LoggedData == DecryptRow(written[ret.call.build_hash].encrypted_data)

\* C13: a build whose protect call returned no path or raised, after the PDF
\* was rendered, is still logged, as an unprotected build: the stored
\* metadata names the unprotected file and carries no password hint
C13_FailedProtectionStillLogged ==
    (/\ ret.op = "build"
     /\ ret.call.protect \in {"none", "raise"}
     /\ LedgerReady(ret.call.logger))
    => /\ ret.logged
       /\ LoggedData.pdf_path = ret.call.raster_path[1]
       /\ LoggedData.pdf_password_hint = None

\* ------------------------------------------------------------------ C14
\* C14: a build that writes a ledger record with a recipient token returns
\* and logs a PDF that this run rendered with that token embedded
C14_LoggedTokenEmbedded ==
    (ret.op = "build" /\ ret.logged /\ ret.call.recipient_token # PyNone)
    => ret.call.pdf = RenderedPdf(ret.call.build_hash, ret.call.recipient_token)

\* ------------------------------------------------------------------ C15
\* the records a build that is logged in this step finds under its identifier
ReplacedBy(call) == {r \in rows : r.build_hash = call.build_hash}

FindResults(k, token) ==
    IF schema THEN {FindScan(k, q, token) : q \in OrderedRows} \ {<<>>} ELSE {}

\* C16: the matches of a validate_pdf report are find_by_recipient_token
\* results for the extracted tokens, one for each token that has a matching
\* record and none for the others, and a report is returned whenever the
\* extraction returned, with no token or no match too
C16_MatchesAreFindResults ==
    (ret.op = "validate_pdf" /\ ~ret.raised) =>
       /\ ret.report # None
       /\ LET k == fernet[ret.logger]
              report == ret.report[1]
              MatchesOf(token) ==
                 {i \in 1..Len(report.matches) :
                     <<report.matches[i]>> \in FindResults(k, token)}
          IN /\ \A token \in ret.tokens :
                   Cardinality(MatchesOf(token)) =
                      IF FindResults(k, token) # {} THEN 1 ELSE 0
             /\ \A i \in 1..Len(report.matches) :
                   \E token \in ret.tokens : i \in MatchesOf(token)
             /\ \A i \in 1..Len(report.tokens) : report.tokens[i] \in ret.tokens
             /\ Len(report.tokens) = Cardinality(ret.tokens)

\* two tokens were extracted and one of them has a record that can be read
C16_Witness ==
    /\ ret.op = "validate_pdf" /\ ~ret.raised
    /\ ret.tokens = Tokens
    /\ Len(ret.report[1].matches) = 1
    /\ Cardinality(rows) = 2

GsSucceeded(gs) == gs.on_path /\ ~gs.raises /\ gs.exit = 0 /\ gs.out = "nonempty"

\* the rasterization step yields <stem>.r<dpi>.pdf if and only if Ghostscript
\* is on PATH, exits 0 and leaves a non-empty output file, and the path of
\* the rendered PDF otherwise
C17_StepKeepsOrRasterizes ==
    (ret'.op = "step" /\ ret'.at = "rasterized") =>
       /\ GsSucceeded(ret'.gs) =>
             bld'.pdf_path = Some(RasterPath(bld.pdf_path[1], RasterDpi))
       /\ ~GsSucceeded(ret'.gs) => bld'.pdf_path = bld.pdf_path
       /\ RasterPath(bld.pdf_path[1], RasterDpi) # bld.pdf_path[1]

\* without protection, build returns the path the rasterization step yielded
C17_UnprotectedReturnsIt ==
    (/\ ret.op = "build" /\ ret.call.rasterize /\ ~ret.call.protect_pdf
     /\ ret.call.pdf # NoFile)
    => /\ ret.result # None
       /\ ret.result = ret.call.raster_path
       /\ ret.result[1] \in {PdfPathIn(ret.call.build_dir),
                              RasterPath(PdfPathIn(ret.call.build_dir), RasterDpi)}

C18_NonZeroExitNotUsed ==
    (ret.op = "build" /\ ret.call.latex_exit # 0) =>
       ret.result = None /\ ~ret.logged

\* ------------------------------------------------------------------ C19
\* C19: a build with only_password set prints nothing but the password
\* line, and that line at most once, whichever way the build ends
C19_OnlyPasswordPrinted ==
    (ret.op = "build" /\ ret.call.only_password) =>
       /\ Len(ret.stdout) <= 1
       /\ \A i \in 1..Len(ret.stdout) : ret.stdout[i].line = "password"

\* ------------------------------------------------------------------ C20
\* the str text starts with the str prefix
StartsWith(text, prefix) ==
    Len(text) >= Len(prefix) /\ SubSeq(text, 1, Len(prefix)) = prefix

\* C20: the pdf_password_hint stored for a build never holds the whole
\* password the build was given, whatever its length, and is null when no
\* password was given
C20_HintHidesPassword ==
    (ret.op = "build" /\ ret.logged) =>
       IF Truthy(ret.call.pdf_password)
       THEN /\ LoggedData.pdf_password_hint # None
            /\ ~StartsWith(LoggedData.pdf_password_hint[1], ret.call.pdf_password[1])
       ELSE LoggedData.pdf_password_hint = None

\* ------------------------------------------------------------------ C21
\* the inputs of the derivation
DeriveInputs == AllBuildHashes \X {"SECRET", "PUBLIC"} \X InstallSecrets
\* the password lines the build that just returned printed
PasswordLines ==
    {i \in 1..Len(ret.stdout) : ret.stdout[i].line \in {"password", "labelled password"}}

\* the derivation gives equal passwords for equal inputs and different
\* passwords for inputs that differ in any one of the three
C21_DerivationInjective ==
    \A a \in DeriveInputs, b \in DeriveInputs :
       (DerivePassword(a[1], a[2], a[3]) = DerivePassword(b[1], b[2], b[3])) <=> (a = b)

\* the password a build reports is the supplied one if one was supplied and
\* otherwise the one derived from its identifier and classification
C21_ReportedIsDerived ==
    (ret.op = "build") =>
       \A i \in PasswordLines :
          ret.stdout[i].value =
             IF ret.call.pdf_password # None /\ ret.call.pdf_password[1] # <<>>
             THEN ret.call.pdf_password[1]
             ELSE DerivePassword(ret.call.build_hash, ret.call.classification,
                                 InstallSecret)

C22_GenerateRefusedWhenKeysExist ==
    [][(ret'.op \in {"keys_generate", "init_project"}) =>
          /\ ret'.invoked =>
                (identity = NoIdentity \/ (ret'.op = "keys_generate" /\ ret'.force))
          /\ ~ret'.invoked => identity' = identity]_vars

\* a cmd_keys --generate without --force was refused over an identity
C22_Witness ==
    /\ ret.op = "keys_generate" /\ ~ret.force /\ ~ret.invoked
    /\ identity # NoIdentity

\* ------------------------------------------------------------------ C23
\* C23: a build calls log_build once, after its other steps, when rendering
\* produced a PDF and not at all otherwise; without a PDF it returns None
\* and writes no record
C23_LoggedOnceIffRendered ==
    (ret.op = "build") =>
       /\ ret.call.log_calls = IF ret.call.pdf # NoFile THEN 1 ELSE 0
       /\ ret.call.log_calls = 1 => ret.call.pc = "done"
       /\ ret.call.pdf = NoFile => (ret.result = None /\ ~ret.logged)

\* ------------------------------------------------------------------ C24
\* C24: the pdf_path stored in the record of a build is the path the build
\* returns, the file as it is after rasterization and protection
C24_LoggedPathIsReturned ==
    (ret.op = "build" /\ ret.logged) =>
       /\ ret.result # None
       /\ LoggedData.pdf_path = ret.result[1]
       /\ ret.call.protect = "new_file" =>
             LoggedData.pdf_path = ProtectedPath(ret.call.raster_path[1], "new_file")

\* a build that was rasterized and protected into a new file was logged
C24_Witness ==
    /\ ret.op = "build" /\ ret.logged
    /\ ret.call.protect = "new_file"
    /\ ret.call.raster_path = Some(RasterPath(PdfPath, RasterDpi))

\* ------------------------------------------------------------------ C25
ReadOps ==
    {"verify_build", "list_builds", "find_by_recipient_token", "export_signed",
     "get_user_builds_stats"}

\* C25: verify_build, list_builds, find_by_recipient_token, export_signed
\* and get_user_builds_stats leave every row of the ledger as it was,
\* whatever they return: a row that fails its tag or its decryption stays
C25_ReadersLeaveRows ==
    [][(ret'.op \in ReadOps) => (rows' = rows /\ keyFile' = keyFile)]_vars

\* verify_build reported a tag mismatch and the row is still there
C25_Witness ==
    /\ ret.op = "verify_build" /\ ret.outcome = "TagMismatch"
    /\ RowsOf(ret.build_hash) # {}

\* ------------------------------------------------------------------ C26
Min(a, b) == IF a < b THEN a ELSE b

\* C26: list_builds(limit) returns min(limit, V) summaries, V being the
\* number of rows of the ledger that decrypt: a corrupted row among the
\* newest takes none of the limit places
C26_ListFillsLimit ==
    (ret.op = "list_builds") =>
       Len(ret.builds) =
          Min(ret.limit, Cardinality(DecryptableRows(fernet[ret.logger])))

\* ------------------------------------------------------------------ C27
\* C27: verify_build(id) returns True only for a record that log_build
\* inserted under id, whatever a writer of the backing store without the
\* ledger key has filed under id
C27_VerifiedWasInserted ==
    (ret.op = "verify_build" /\ ret.result) =>
       /\ written[ret.build_hash] # NoRow
       /\ \A r \in RowsOf(ret.build_hash) :
             /\ r.encrypted_data = written[ret.build_hash].encrypted_data
             /\ DecryptRow(r.encrypted_data).build_hash = ret.build_hash

\* ------------------------------------------------------------------ C28
\* the processes whose handle was constructed
Opened == {p \in Procs : proc[p].pc = "opened"}

\* C28: any two handles opened on the ledger path, also when they were
\* opened at the same time on a ledger that did not exist yet, hold the same
\* encryption key, so that each verifies the rows the other inserted
C28_HandlesShareKey ==
    /\ \A p \in Opened, q \in Opened : proc[p].fernet = proc[q].fernet
    /\ (ret.op = "verify_build" /\ written[ret.build_hash] # NoRow) => ret.result

\* ------------------------------------------------------------------ C29
\* C29: when build returns a path, the ledger holds a record under the
\* identifier of that build
C29_ReturnedPathIsLogged ==
    (ret.op = "build" /\ ret.result # None) =>
       /\ ret.logged
       /\ RowsOf(ret.call.build_hash) # {}

\* ------------------------------------------------------------------ C30
\* C30: a fan-out run attempts one build for every CSV row that carries a
\* token, returns True exactly when every attempted build returned a path,
\* and after a run that returned True find_by_recipient_token resolves the
\* token of every recipient to a record
C30_FanoutResolvesRecipients ==
    (ret.op = "fanout_builds" /\ ret.result) =>
       /\ Len(ret.results) = Len(ret.attempted)
       /\ \A i \in 1..Len(ret.results) : ret.results[i] # None
       /\ \A i \in 1..Len(ret.attempted) :
             FindResults(fernet[ret.logger], ret.attempted[i]) # {}
====
